---- MODULE Spec2Model ----
(***************************************************************************)
(* The two notebooks of samples/secret-santa/secret-santa.ipynb:           *)
(*   - Secret Santa: build_terms, the term assembly, the submission to the *)
(*     remote solver and print_results;                                    *)
(*   - the quadratic assignment problem (QAP): variable_map, the monomial  *)
(*     term loop, the SlcTerm penalty loops, the submission and the        *)
(*     interpretation loop.                                                *)
(* Each notebook is a straight-line script; pc is its position.            *)
(*                                                                         *)
(* Coefficients and costs are Python floats that are always multiples of   *)
(* 1/2 (the only division is "/2.0"); they are kept exactly, as integers   *)
(* counting halves: Float(x) is the float x, FDiv2(f) is f/2.0.            *)
(***************************************************************************)
EXTENDS Integers, Sequences, FiniteSets, TLC

VARIABLES
    nb,            \* which notebook runs: "santa" or "qap"
    pc,            \* position of the script
    calls,         \* santa: the argument pairs passed to build_terms, in order
    n,             \* qap: number of facilities = number of locations
    locations,     \* qap: distance matrix (sequence of rows)
    facilities,    \* qap: flow matrix (sequence of rows)
    P,             \* qap: penalty weight
    variable_map,  \* qap: dict (i,j) -> id, as a sequence of <<key, value>> in insertion order
    cursor,        \* number of iterations done by the loop pc is in
    terms,         \* the term list (terms / terms_list)
    problem,       \* the Problem object, or None
    result,        \* what solver.optimize returned, or None
    out,           \* the lines printed by the result interpreter
    runs           \* how many times the interpreter cell has run

vars == <<nb, pc, calls, n, locations, facilities, P, variable_map, cursor,
          terms, problem, result, out, runs>>

(* Python's None, for a variable not yet assigned *)
None == [none |-> TRUE]

---------------------------------------------------------------------------
(* Bounds of the input sets the specifications draw from.                  *)

MaxIdx == 5      \* build_terms is applied to indices 0..MaxIdx
MaxN == 3        \* the general term builder runs for n in 1..MaxN
MaxEntry == 1    \* entries of the drawn matrices are in 0..MaxEntry
MaxP == 3        \* the drawn penalty weights are 1..MaxP
MaxRuns == 3     \* the interpreter cell is run at most MaxRuns times

---------------------------------------------------------------------------
(* Floats as integers counting halves.                                     *)

Denom == 2

Float(x) == x * Denom

FDiv2(f) == f \div 2

(* str(v) for a non-negative integer v *)
DigitChars == <<"0", "1", "2", "3", "4", "5", "6", "7", "8", "9">>

RECURSIVE str(_)
str(v) == IF v < 10 THEN DigitChars[v + 1]
          ELSE str(v \div 10) \o DigitChars[(v % 10) + 1]

---------------------------------------------------------------------------
(* Python lists and dicts.                                                 *)

Range(s) == {s[x] : x \in DOMAIN s}

RECURSIVE SumSeq(_)
SumSeq(s) == IF s = <<>> THEN 0 ELSE Head(s) + SumSeq(Tail(s))

(* a dict is a sequence of <<key, value>> in insertion order *)
DictKeys(d) == [x \in DOMAIN d |-> d[x][1]]

DictHas(d, key) == \E x \in DOMAIN d : d[x][1] = key

DictGet(d, key) == d[CHOOSE x \in DOMAIN d : d[x][1] = key][2]

DictSet(d, key, v) ==
    IF DictHas(d, key)
    THEN [x \in DOMAIN d |-> IF d[x][1] = key THEN <<key, v>> ELSE d[x]]
    ELSE Append(d, <<key, v>>)

---------------------------------------------------------------------------
(* Terms and their value (azure.quantum.optimization Term, SlcTerm).       *)

Term(c, indices) == [kind |-> "Term", c |-> c, ids |-> indices]

SlcTerm(c, ts) == [kind |-> "SlcTerm", c |-> c, terms |-> ts]

(* c_k * prod_i x_i, x a function from variable ids to {0,1} *)
RECURSIVE Prod(_, _)
Prod(ids, x) == IF ids = <<>> THEN 1 ELSE x[Head(ids)] * Prod(Tail(ids), x)

TermValue(t, x) == t.c * Prod(t.ids, x)

(* P * (sum_i c_i x_i + k)^2; c and the inner sum count halves, so does the result *)
SlcValue(s, x) ==
    LET lin == SumSeq([y \in DOMAIN s.terms |-> TermValue(s.terms[y], x)])
    IN  (s.c * lin * lin) \div (Denom * Denom)

TermIds(t) ==
    IF t.kind = "SlcTerm"
    THEN UNION {Range(t.terms[y].ids) : y \in DOMAIN t.terms}
    ELSE Range(t.ids)

TermsIds(ts) == UNION {TermIds(ts[y]) : y \in DOMAIN ts}

---------------------------------------------------------------------------
(* Secret Santa notebook.                                                  *)

(* build_terms with the two linear terms in the other order *)
build_terms_swapped(i, j) ==
    << Term(Float(1), <<i, i>>),
       Term(Float(1), <<j, j>>),
       Term(Float(2), <<i, j>>),
       Term(Float(-2), <<j>>),
       Term(Float(-2), <<i>>),
       Term(Float(1), <<>>) >>

(* build_terms with the sign of the x(i) term lost *)
build_terms_plus(i, j) ==
    << Term(Float(1), <<i, i>>),
       Term(Float(1), <<j, j>>),
       Term(Float(2), <<i, j>>),
       Term(Float(2), <<i>>),
       Term(Float(-2), <<j>>),
       Term(Float(1), <<>>) >>

build_terms(i, j) ==
    << Term(Float(1), <<i, i>>),     \* x(i)^2
       Term(Float(1), <<j, j>>),     \* x(j)^2
       Term(Float(2), <<i, j>>),     \* 2x(i)x(j)
       Term(Float(-2), <<i>>),       \* -2x(i)
       Term(Float(-2), <<j>>),       \* -2x(j)
       Term(Float(1), <<>>) >>       \* +1

(* the term assembly with the columns read off the wrong variables *)
SantaCalls_wrong_column ==
    << <<0, 1>>, <<2, 3>>, <<4, 5>>, <<2, 5>>, <<0, 4>>, <<1, 3>> >>

(* rows 0..2, then columns 0..2 of the secret santa matrix *)
SantaCalls == << <<0, 1>>, <<2, 3>>, <<4, 5>>, <<2, 4>>, <<0, 5>>, <<1, 3>> >>

(* the label table with the sentences of x(4) and x(5) exchanged *)
SantaLabels_exchanged ==
    << <<"0", "Vincent buys Tess a gift and writes her a poem.">>,
       <<"1", "Vincent buys Uma a gift and writes her a poem.">>,
       <<"2", "Tess buys Vincent a gift and writes him a poem.">>,
       <<"3", "Tess buys Uma a gift and writes her a poem.">>,
       <<"4", "Uma buys Tess a gift and writes her a poem.">>,
       <<"5", "Uma buys Vincent a gift and writes him a poem.">> >>

(* the label table of print_results *)
SantaLabels ==
    << <<"0", "Vincent buys Tess a gift and writes her a poem.">>,
       <<"1", "Vincent buys Uma a gift and writes her a poem.">>,
       <<"2", "Tess buys Vincent a gift and writes him a poem.">>,
       <<"3", "Tess buys Uma a gift and writes her a poem.">>,
       <<"4", "Uma buys Vincent a gift and writes him a poem.">>,
       <<"5", "Uma buys Tess a gift and writes her a poem.">> >>


---------------------------------------------------------------------------
(* The Problem object and the remote solver.                               *)

IsSlc(t) == t.kind = "SlcTerm"

IsMonomial(t) == t.kind = "Term"

(* Problem(name, problem_type, terms): monomials go to .terms, SlcTerms to .terms_slc *)
Problem(name, problem_type, ts) ==
    [name |-> name, problem_type |-> problem_type,
     terms |-> SelectSeq(ts, IsMonomial), terms_slc |-> SelectSeq(ts, IsSlc)]

ProblemIds(p) == TermsIds(p.terms \o p.terms_slc)

(* the objective: sum_k term_k, plus the grouped terms *)
Cost(p, x) ==
    SumSeq([y \in DOMAIN p.terms |-> TermValue(p.terms[y], x)])
    + SumSeq([y \in DOMAIN p.terms_slc |-> SlcValue(p.terms_slc[y], x)])

RECURSIVE SortedSeq(_)
SortedSeq(S) ==
    IF S = {} THEN <<>>
    ELSE LET m == CHOOSE v \in S : \A w \in S : v <= w
         IN  <<m>> \o SortedSeq(S \ {m})

(* the configuration as returned: {'0': x0, '1': x1, ...}, keys are strings *)
Configuration(x) ==
    LET ids == SortedSeq(DOMAIN x)
    IN  [y \in DOMAIN ids |-> <<str(ids[y]), x[ids[y]]>>]

Solution(p, x) == [configuration |-> Configuration(x), cost |-> Cost(p, x)]

(* SimulatedAnnealing.optimize returns the solution, PopulationAnnealing.optimize *)
(* a dict holding the list of solutions *)
Returned(sol) == IF nb = "santa" THEN sol ELSE [solutions |-> <<sol>>]

TheSolution(r) == IF nb = "santa" THEN r ELSE r.solutions[1]

(* result = solver.optimize(problem): the solver is remote and heuristic, it may *)
(* return any assignment of the problem's variables, with that assignment's cost *)
Optimize ==
    /\ pc = "submit"
    /\ \E x \in [ProblemIds(problem) -> {0, 1}] :
           result' = Returned(Solution(problem, x))
    /\ pc' = "interpret"
    /\ UNCHANGED <<nb, calls, n, locations, facilities, P, variable_map, cursor,
                   terms, problem, out, runs>>

(* the call raises and the script builds the Problem and submits it again *)
OptimizeFails_resubmits ==
    /\ pc = "submit"
    /\ pc' = IF nb = "santa" THEN "assemble" ELSE "problem"
    /\ UNCHANGED <<nb, calls, n, locations, facilities, P, variable_map, cursor,
                   terms, problem, result, out, runs>>

(* ... or the call raises, and the exception ends the run *)
OptimizeFails ==
    /\ pc = "submit"
    /\ pc' = "failed"
    /\ UNCHANGED <<nb, calls, n, locations, facilities, P, variable_map, cursor,
                   terms, problem, result, out, runs>>

---------------------------------------------------------------------------
(* Secret Santa: the script.                                               *)

(* terms = build_terms(0, 1) + build_terms(2, 3) + ... : one call per step *)
SantaBuild ==
    /\ nb = "santa"
    /\ pc = "assemble"
    /\ cursor < Len(calls)
    /\ terms' = terms \o build_terms(calls[cursor + 1][1], calls[cursor + 1][2])
    /\ cursor' = cursor + 1
    /\ UNCHANGED <<nb, pc, calls, n, locations, facilities, P, variable_map,
                   problem, result, out, runs>>

SantaProblem ==
    /\ nb = "santa"
    /\ pc = "assemble"
    /\ cursor = Len(calls)
    /\ problem' = Problem("secret santa", "pubo", terms)
    /\ pc' = "submit"
    /\ UNCHANGED <<nb, calls, n, locations, facilities, P, variable_map, cursor,
                   terms, result, out, runs>>

(* print_results that stops after the first variable that is set *)
RECURSIVE print_results_first_only(_)
print_results_first_only(config) ==
    IF config = <<>> THEN [lines |-> <<>>, raised |-> FALSE]
    ELSE IF Head(config)[2] = 1
         THEN [lines |-> <<DictGet(SantaLabels, Head(config)[1])>>, raised |-> FALSE]
         ELSE print_results_first_only(Tail(config))

(* print_results that rejects a configuration that does not set exactly three variables *)
print_results_validating(config) ==
    IF Cardinality({y \in DOMAIN config : config[y][2] = 1}) # 3
    THEN [lines |-> <<>>, raised |-> TRUE]
    ELSE [lines |-> [y \in 1..3 |->
                        DictGet(SantaLabels,
                                config[CHOOSE z \in DOMAIN config :
                                          /\ config[z][2] = 1
                                          /\ Cardinality({w \in 1..z : config[w][2] = 1}) = y][1])],
          raised |-> FALSE]

(* print_results(config): the lines printed, and whether result[key] raised KeyError *)
RECURSIVE print_results(_)
print_results(config) ==
    IF config = <<>> THEN [lines |-> <<>>, raised |-> FALSE]
    ELSE LET key == Head(config)[1]
             val == Head(config)[2]
         IN  IF val = 1
             THEN IF DictHas(SantaLabels, key)
                  THEN LET rest == print_results(Tail(config))
                       IN  [lines |-> <<DictGet(SantaLabels, key)>> \o rest.lines,
                            raised |-> rest.raised]
                  ELSE [lines |-> <<>>, raised |-> TRUE]
             ELSE print_results(Tail(config))

(* the cell that prints the result, with the configuration consumed as it is printed *)
SantaPrintCell_consuming ==
    /\ LET r == print_results(result.configuration)
       IN  /\ out' = out \o r.lines
           /\ pc' = IF r.raised THEN "failed" ELSE "done"
    /\ result' = [result EXCEPT !.configuration = <<>>]
    /\ runs' = runs + 1
    /\ UNCHANGED <<nb, calls, n, locations, facilities, P, variable_map, cursor,
                   terms, problem>>

(* print_results(result['configuration']) *)
SantaPrintCell ==
    /\ LET r == print_results(result.configuration)
       IN  /\ out' = out \o r.lines
           /\ pc' = IF r.raised THEN "failed" ELSE "done"
    /\ runs' = runs + 1
    /\ UNCHANGED <<nb, calls, n, locations, facilities, P, variable_map, cursor,
                   terms, problem, result>>

SantaPrint ==
    /\ nb = "santa"
    /\ pc = "interpret"
    /\ SantaPrintCell

(* the cell run again on the same result *)
SantaPrintAgain ==
    /\ nb = "santa"
    /\ pc = "done"
    /\ runs < MaxRuns
    /\ SantaPrintCell

NextSanta == SantaBuild \/ SantaProblem \/ Optimize \/ OptimizeFails \/ SantaPrint


---------------------------------------------------------------------------
(* Quadratic assignment: the example's inputs.                             *)

ExampleN == 3

ExampleLocations == << <<0, 2, 20>>, <<2, 0, 14>>, <<20, 14, 0>> >>

ExampleFacilities == << <<0, 100, 0>>, <<100, 0, 5>>, <<0, 5, 0>> >>

ExampleP == 1000

k == -1

---------------------------------------------------------------------------
(* Quadratic assignment: the script.                                       *)

(* for i in range(n): for j in range(n): variable_map[(i,j)] = i*n + j *)
(* ids counted from 1 *)
variable_id_one_based(i, j) == i * n + j + 1

(* ids with a row stride of n - 1 *)
variable_id_short(i, j) == i * (n - 1) + j

variable_id(i, j) == i * n + j

QapMapStep ==
    /\ nb = "qap"
    /\ pc = "map"
    /\ LET i == cursor \div n
           j == cursor % n
       IN  variable_map' = DictSet(variable_map, <<i, j>>, variable_id(i, j))
    /\ IF cursor + 1 = n * n
       THEN pc' = "monomials" /\ cursor' = 0
       ELSE pc' = pc /\ cursor' = cursor + 1
    /\ UNCHANGED <<nb, calls, n, locations, facilities, P, terms, problem,
                   result, out, runs>>

(* neighbours = [var for var in variable_map if var[0] != i and var[1] != j] *)
(* neighbours filtered on the facility only *)
neighbours_same_location(vm, x1) ==
    LET Other(var) == var[1] # x1[1]
    IN  SelectSeq(DictKeys(vm), Other)

neighbours(vm, x1) ==
    LET Other(var) == var[1] # x1[1] /\ var[2] # x1[2]
    IN  SelectSeq(DictKeys(vm), Other)

(* c = locations[j][j2]*facilities[i][i2]/2.0 *)
(* the coefficient without the division by 2 *)
coefficient_not_halved(x1, x2) ==
    Float(locations[x1[2] + 1][x2[2] + 1] * facilities[x1[1] + 1][x2[1] + 1])

coefficient(x1, x2) ==
    FDiv2(Float(locations[x1[2] + 1][x2[2] + 1] * facilities[x1[1] + 1][x2[1] + 1]))

(* the terms one iteration of "for x1 in variable_map" appends *)
monomial_terms(vm, x1) ==
    LET nbrs == neighbours(vm, x1)
    IN  [y \in DOMAIN nbrs |->
            Term(coefficient(x1, nbrs[y]), <<DictGet(vm, x1), DictGet(vm, nbrs[y])>>)]

QapMonomialStep ==
    /\ nb = "qap"
    /\ pc = "monomials"
    /\ terms' = terms \o monomial_terms(variable_map, DictKeys(variable_map)[cursor + 1])
    /\ IF cursor + 1 = Len(variable_map)
       THEN pc' = "facility" /\ cursor' = 0
       ELSE pc' = pc /\ cursor' = cursor + 1
    /\ UNCHANGED <<nb, calls, n, locations, facilities, P, variable_map, problem,
                   result, out, runs>>

(* SlcTerm(c = P, terms = [Term(c = 1, indices = [variable_map[(i,j)]]) for j in range(n)] *)
(*                        + [Term(c = k, indices = [])])                                   *)
(* the facility group without its constant k term *)
facility_constraint_no_constant(vm, i) ==
    SlcTerm(Float(P),
            [y \in 1..n |-> Term(Float(1), <<DictGet(vm, <<i, y - 1>>)>>)])

facility_constraint(vm, i) ==
    SlcTerm(Float(P),
            [y \in 1..n |-> Term(Float(1), <<DictGet(vm, <<i, y - 1>>)>>)]
            \o <<Term(Float(k), <<>>)>>)

(* the location group indexed as (i,j) instead of (j,i) *)
location_constraint_as_row(vm, i) ==
    SlcTerm(Float(P),
            [y \in 1..n |-> Term(Float(1), <<DictGet(vm, <<i, y - 1>>)>>)]
            \o <<Term(Float(k), <<>>)>>)

location_constraint(vm, i) ==
    SlcTerm(Float(P),
            [y \in 1..n |-> Term(Float(1), <<DictGet(vm, <<y - 1, i>>)>>)]
            \o <<Term(Float(k), <<>>)>>)

QapFacilityStep ==
    /\ nb = "qap"
    /\ pc = "facility"
    /\ terms' = Append(terms, facility_constraint(variable_map, cursor))
    /\ IF cursor + 1 = n
       THEN pc' = "location" /\ cursor' = 0
       ELSE pc' = pc /\ cursor' = cursor + 1
    /\ UNCHANGED <<nb, calls, n, locations, facilities, P, variable_map, problem,
                   result, out, runs>>

QapLocationStep ==
    /\ nb = "qap"
    /\ pc = "location"
    /\ terms' = Append(terms, location_constraint(variable_map, cursor))
    /\ IF cursor + 1 = n
       THEN pc' = "problem" /\ cursor' = 0
       ELSE pc' = pc /\ cursor' = cursor + 1
    /\ UNCHANGED <<nb, calls, n, locations, facilities, P, variable_map, problem,
                   result, out, runs>>

QapProblem ==
    /\ nb = "qap"
    /\ pc = "problem"
    /\ problem' = Problem("Small QAP", "pubo", terms)
    /\ pc' = "submit"
    /\ UNCHANGED <<nb, calls, n, locations, facilities, P, variable_map, cursor,
                   terms, result, out, runs>>

(* for v in variable_map: if solution["configuration"][str(var_id)] == 1: print(...) *)
RECURSIVE interpret(_, _)
interpret(vm, config) ==
    IF vm = <<>> THEN [lines |-> <<>>, raised |-> FALSE]
    ELSE LET v == Head(vm)[1]
             var_id == Head(vm)[2]
         IN  IF ~DictHas(config, str(var_id))
             THEN [lines |-> <<>>, raised |-> TRUE]
             ELSE LET rest == interpret(Tail(vm), config)
                  IN  IF DictGet(config, str(var_id)) = 1
                      THEN [lines |-> << "Facility " \o str(v[1])
                                         \o " assigned to Location " \o str(v[2]) >>
                                      \o rest.lines,
                            raised |-> rest.raised]
                      ELSE rest

QapInterpretCell ==
    /\ LET solution == result.solutions[1]
           r == interpret(variable_map, solution.configuration)
       IN  /\ out' = out \o r.lines
           /\ pc' = IF r.raised THEN "failed" ELSE "done"
    /\ runs' = runs + 1
    /\ UNCHANGED <<nb, calls, n, locations, facilities, P, variable_map, cursor,
                   terms, problem, result>>

QapInterpret ==
    /\ nb = "qap"
    /\ pc = "interpret"
    /\ QapInterpretCell

(* the cell run again on the same result *)
QapInterpretAgain ==
    /\ nb = "qap"
    /\ pc = "done"
    /\ runs < MaxRuns
    /\ QapInterpretCell

NextQapBuild ==
    QapMapStep \/ QapMonomialStep \/ QapFacilityStep \/ QapLocationStep \/ QapProblem

NextQap == NextQapBuild \/ Optimize \/ OptimizeFails \/ QapInterpret

---------------------------------------------------------------------------
(* Specifications.                                                         *)

InitSanta ==
    /\ nb = "santa"
    /\ pc = "assemble"
    /\ calls = SantaCalls
    /\ n = 0 /\ locations = <<>> /\ facilities = <<>> /\ P = 0
    /\ variable_map = <<>>
    /\ cursor = 0
    /\ terms = <<>>
    /\ problem = None
    /\ result = None
    /\ out = <<>>
    /\ runs = 0

InitQap ==
    /\ nb = "qap"
    /\ pc = "map"
    /\ calls = <<>>
    /\ n = ExampleN
    /\ locations = ExampleLocations
    /\ facilities = ExampleFacilities
    /\ P = ExampleP
    /\ variable_map = <<>>
    /\ cursor = 0
    /\ terms = <<>>
    /\ problem = None
    /\ result = None
    /\ out = <<>>
    /\ runs = 0

(* the two notebooks as written *)
Init == InitSanta \/ InitQap

Next ==
    \/ SantaBuild \/ SantaProblem \/ SantaPrint
    \/ QapMapStep \/ QapMonomialStep \/ QapFacilityStep \/ QapLocationStep
    \/ QapProblem \/ QapInterpret
    \/ Optimize \/ OptimizeFails

Spec == Init /\ [][Next]_vars

(* the notebooks with the interpreter cell run again, up to MaxRuns times in all *)
NextRerun == Next \/ SantaPrintAgain \/ QapInterpretAgain

SpecRerun == Init /\ [][NextRerun]_vars

(* build_terms on its own: the Secret Santa script with a single call build_terms(i, j), *)
(* for every i, j in 0..MaxIdx                                                            *)
InitBuild ==
    /\ nb = "santa"
    /\ pc = "assemble"
    /\ calls \in { << <<i, j>> >> : i \in 0..MaxIdx, j \in 0..MaxIdx }
    /\ n = 0 /\ locations = <<>> /\ facilities = <<>> /\ P = 0
    /\ variable_map = <<>>
    /\ cursor = 0
    /\ terms = <<>>
    /\ problem = None
    /\ result = None
    /\ out = <<>>
    /\ runs = 0

SpecBuild == InitBuild /\ [][NextSanta]_vars


(* The quadratic assignment term builder on its own: the script up to the Problem, *)
(* for n in 1..MaxN and flow and distance matrices drawn from the n x n matrices    *)
(* with entries in 0..MaxEntry that have one non-zero entry, one symmetric pair of  *)
(* non-zero entries or all off-diagonal entries equal, and the example's matrices.  *)
UnitMatrix(m, a0, b0, v) ==
    [a \in 1..m |-> [b \in 1..m |-> IF a = a0 /\ b = b0 THEN v ELSE 0]]

SymMatrix(m, a0, b0, v) ==
    [a \in 1..m |-> [b \in 1..m |-> IF {a, b} = {a0, b0} /\ a # b THEN v ELSE 0]]

FullMatrix(m, v) ==
    [a \in 1..m |-> [b \in 1..m |-> IF a # b THEN v ELSE 0]]

Matrices(m) ==
    {UnitMatrix(m, a, b, v) : a \in 1..m, b \in 1..m, v \in 0..MaxEntry}
    \cup {SymMatrix(m, a, b, v) : a \in 1..m, b \in 1..m, v \in 1..MaxEntry}
    \cup {FullMatrix(m, v) : v \in 1..MaxEntry}
    \cup (IF m = ExampleN THEN {ExampleLocations, ExampleFacilities} ELSE {})

InitQapBuild ==
    /\ nb = "qap"
    /\ pc = "map"
    /\ calls = <<>>
    /\ n \in 1..MaxN
    /\ locations \in Matrices(n)
    /\ facilities \in Matrices(n)
    /\ P = ExampleP
    /\ variable_map = <<>>
    /\ cursor = 0
    /\ terms = <<>>
    /\ problem = None
    /\ result = None
    /\ out = <<>>
    /\ runs = 0

SpecQapBuild == InitQapBuild /\ [][NextQapBuild]_vars

(* The penalty encoder under any positive weight: the quadratic assignment script *)
(* for P in 1..MaxP and the example's P, on the leading n x n blocks of the        *)
(* example's matrices, n up to the example's size.                                 *)
LeadingBlock(M, m) == [a \in 1..m |-> [b \in 1..m |-> M[a][b]]]

InitPenalty ==
    /\ nb = "qap"
    /\ pc = "map"
    /\ calls = <<>>
    /\ n \in 1..ExampleN
    /\ locations = LeadingBlock(ExampleLocations, n)
    /\ facilities = LeadingBlock(ExampleFacilities, n)
    /\ P \in (1..MaxP) \cup {ExampleP}
    /\ variable_map = <<>>
    /\ cursor = 0
    /\ terms = <<>>
    /\ problem = None
    /\ result = None
    /\ out = <<>>
    /\ runs = 0

SpecPenalty == InitPenalty /\ [][NextQap]_vars

---------------------------------------------------------------------------
(* What the claims speak of.                                               *)

(* the value the returned configuration gives variable id *)
X(config, id) == DictGet(config, str(id))

HasResult == result # None

(* the configuration and cost of the returned solution *)
Config == TheSolution(result).configuration

ReturnedCost == TheSolution(result).cost

(* the arguments of the single build_terms call of SpecBuild *)
ArgI == calls[1][1]

ArgJ == calls[1][2]

(* the six exclusive-or constraints of the Secret Santa formulation *)
XorConstraints == { <<0, 1>>, <<2, 3>>, <<4, 5>>, <<2, 4>>, <<0, 5>>, <<1, 3>> }

(* the secret santa matrix: the variable of "giver buys for receiver" *)
People == {"Vincent", "Tess", "Uma"}

SantaMatrix ==
    [giver \in People |->
        CASE giver = "Vincent" -> [Tess |-> 0, Uma |-> 1]
          [] giver = "Tess"    -> [Vincent |-> 2, Uma |-> 3]
          [] giver = "Uma"     -> [Vincent |-> 4, Tess |-> 5]]

GiftsGiven(p, config) ==
    Cardinality({r \in DOMAIN SantaMatrix[p] : X(config, SantaMatrix[p][r]) = 1})

GiftsReceived(p, config) ==
    Cardinality({g \in People \ {p} : X(config, SantaMatrix[g][p]) = 1})

---------------------------------------------------------------------------
(* C1: for i # j, build_terms(i, j) returns exactly 6 terms, in this order: *)
(* 1 on [i,i], 1 on [j,j], 2 on [i,j], -2 on [i], -2 on [j], 1 on []; the   *)
(* list is determined by (i, j) alone.                                      *)
C1_BuildTermsSixTerms ==
    (nb = "santa" /\ Len(calls) = 1 /\ cursor = 1 /\ ArgI # ArgJ) =>
        /\ Len(terms) = 6
        /\ terms[1] = [kind |-> "Term", c |-> Float(1), ids |-> <<ArgI, ArgI>>]
        /\ terms[2] = [kind |-> "Term", c |-> Float(1), ids |-> <<ArgJ, ArgJ>>]
        /\ terms[3] = [kind |-> "Term", c |-> Float(2), ids |-> <<ArgI, ArgJ>>]
        /\ terms[4] = [kind |-> "Term", c |-> Float(-2), ids |-> <<ArgI>>]
        /\ terms[5] = [kind |-> "Term", c |-> Float(-2), ids |-> <<ArgJ>>]
        /\ terms[6] = [kind |-> "Term", c |-> Float(1), ids |-> <<>>]

C1_Witness ==
    /\ nb = "santa" /\ calls = << <<2, 5>> >> /\ cursor = 1
    /\ Len(terms) = 6 /\ terms[4].ids = <<2>> /\ terms[5].ids = <<5>>

(* C2: for i # j, the polynomial of build_terms(i, j) is 1, 0, 0, 1 at        *)
(* (x_i, x_j) = (0,0), (0,1), (1,0), (1,1): 0 exactly when x_i XOR x_j.       *)
C2_XorPenaltyValues ==
    (nb = "santa" /\ Len(calls) = 1 /\ HasResult /\ ArgI # ArgJ) =>
        LET xi == X(Config, ArgI)
            xj == X(Config, ArgJ)
        IN  /\ (xi = 0 /\ xj = 0) => ReturnedCost = Float(1)
            /\ (xi = 0 /\ xj = 1) => ReturnedCost = 0
            /\ (xi = 1 /\ xj = 0) => ReturnedCost = 0
            /\ (xi = 1 /\ xj = 1) => ReturnedCost = Float(1)
            /\ (ReturnedCost = 0) <=> (xi # xj)

C2_Witness ==
    /\ nb = "santa" /\ calls = << <<1, 4>> >> /\ HasResult
    /\ X(Config, 1) = 1 /\ X(Config, 4) = 1 /\ ReturnedCost = Float(1)

(* C3: for the Secret Santa term list, over all 64 assignments of x0..x5 the *)
(* objective is the number of violated XOR constraints: 0 iff every person   *)
(* gives exactly one gift and receives exactly one gift, at least 1 if not.  *)
C3_SantaObjectiveCountsViolations ==
    (nb = "santa" /\ calls = SantaCalls /\ HasResult) =>
        LET violated == {c \in XorConstraints : X(Config, c[1]) = X(Config, c[2])}
            valid == \A p \in People :
                        GiftsGiven(p, Config) = 1 /\ GiftsReceived(p, Config) = 1
        IN  /\ ReturnedCost = Float(Cardinality(violated))
            /\ (ReturnedCost = 0) <=> valid
            /\ (ReturnedCost = 0) <=> (violated = {})
            /\ ~valid => ReturnedCost >= Float(1)

C3_Witness ==
    /\ nb = "santa" /\ calls = SantaCalls /\ HasResult
    /\ X(Config, 0) = 1 /\ X(Config, 3) = 1 /\ X(Config, 4) = 1
    /\ X(Config, 1) = 0 /\ X(Config, 2) = 0 /\ X(Config, 5) = 0
    /\ ReturnedCost = 0


---------------------------------------------------------------------------
(* Quadratic assignment: what the claims speak of.                         *)

Facilities == 0..(n - 1)

Locations == 0..(n - 1)

(* the monomial terms of the term list, in order *)
Monomials == SelectSeq(terms, IsMonomial)

(* the grouped terms of the term list, in order *)
Grouped == SelectSeq(terms, IsSlc)

MonomialsBuilt == nb = "qap" /\ pc \notin {"map", "monomials"}

PenaltiesBuilt == nb = "qap" /\ pc \notin {"map", "monomials", "facility", "location"}

IsSymmetric(M) == \A a \in 1..n, b \in 1..n : M[a][b] = M[b][a]

(* the assignments of facilities to locations that are permutations *)
PermAssignments == {pi \in [Facilities -> Locations] : \A a, b \in Facilities : a # b => pi[a] # pi[b]}

(* the binary configuration of an assignment: x_{i,j} = 1 iff facility i is at location j *)
Assignment(pi) ==
    [v \in 0..(n * n - 1) |-> IF pi[v \div n] = v % n THEN 1 ELSE 0]

(* the quadratic assignment cost: sum over unordered facility pairs of flow * distance *)
QapCost(pi) ==
    LET pairs == [v \in 1..(n * n) |-> v - 1]    \* the pair (a, b) as a * n + b
        Pair(v) == IF v \div n < v % n
                   THEN facilities[(v \div n) + 1][(v % n) + 1]
                        * locations[pi[v \div n] + 1][pi[v % n] + 1]
                   ELSE 0
    IN  SumSeq([y \in DOMAIN pairs |-> Pair(pairs[y])])

MonomialSum(x) ==
    LET mono == Monomials
    IN  SumSeq([y \in DOMAIN mono |-> TermValue(mono[y], x)])

(* C4: the term builder emits exactly one term for each ordered pair of       *)
(* variables (x_{i,j}, x_{i2,j2}) with i # i2 and j # j2, with indices        *)
(* [id(i,j), id(i2,j2)] and coefficient flow[i][i2] * distance[j][j2] / 2,    *)
(* and none for a pair sharing a facility or a location: n^2 (n-1)^2 terms,   *)
(* 36 for the 3x3 example.                                                    *)
C4_OneTermPerNeighbourPair ==
    MonomialsBuilt =>
        LET mono == Monomials
            emitted == {mono[y].ids : y \in DOMAIN mono}
            quadruples == {q \in Facilities \X Locations \X Facilities \X Locations :
                              q[1] # q[3] /\ q[2] # q[4]}
        IN  /\ emitted = {<<q[1] * n + q[2], q[3] * n + q[4]>> : q \in quadruples}
            /\ Cardinality(emitted) = Len(mono)
            /\ \A y \in DOMAIN mono :
                  LET a == mono[y].ids[1]
                      b == mono[y].ids[2]
                  IN  /\ Len(mono[y].ids) = 2
                      /\ 2 * mono[y].c
                           = Float(facilities[(a \div n) + 1][(b \div n) + 1]
                                   * locations[(a % n) + 1][(b % n) + 1])
            /\ Len(mono) = n * n * (n - 1) * (n - 1)
            /\ (n = 3) => Len(mono) = 36

C4_Witness ==
    /\ MonomialsBuilt /\ n = 3
    /\ locations = ExampleLocations /\ facilities = ExampleFacilities
    /\ Len(Monomials) = 36
    /\ Monomials[2] = [kind |-> "Term", c |-> Float(1000), ids |-> <<0, 5>>]

(* C5: for symmetric flow and distance matrices and any permutation pi, the   *)
(* sum of all monomial terms (duplicates summed) is the quadratic assignment  *)
(* cost, sum over unordered pairs {i,i2} of flow[i][i2] * distance[pi(i)][pi(i2)]; *)
(* for the example, 270 for k -> k and 1410 for 0 -> 2, 1 -> 1, 2 -> 0.       *)
C5_MonomialSumIsQapCost ==
    (nb = "qap" /\ pc = "problem") =>
        /\ (IsSymmetric(locations) /\ IsSymmetric(facilities)) =>
              \A pi \in PermAssignments : MonomialSum(Assignment(pi)) = Float(QapCost(pi))
        /\ (n = 3 /\ locations = ExampleLocations /\ facilities = ExampleFacilities) =>
              /\ MonomialSum(Assignment([f \in Facilities |-> f])) = Float(270)
              /\ MonomialSum(Assignment([f \in Facilities |-> 2 - f])) = Float(1410)

C5_Witness ==
    /\ nb = "qap" /\ pc = "problem" /\ n = 3
    /\ locations = ExampleLocations /\ facilities = ExampleFacilities
    /\ MonomialSum(Assignment([f \in Facilities |-> f])) = Float(270)


---------------------------------------------------------------------------
(* the returned configuration as an assignment of the n*n variables *)
ReturnedX == [v \in 0..(n * n - 1) |-> X(Config, v)]

(* the variables of a grouped term that the assignment sets *)
GroupOnes(g, x) == Cardinality({v \in TermIds(g) : x[v] = 1})

IsPermutationMatrix(x) ==
    /\ \A i \in Facilities : Cardinality({j \in Locations : x[i * n + j] = 1}) = 1
    /\ \A j \in Locations : Cardinality({i \in Facilities : x[i * n + j] = 1}) = 1

TotalPenalty(x) ==
    SumSeq([y \in DOMAIN problem.terms_slc |-> SlcValue(problem.terms_slc[y], x)])

(* a grouped term of weight P over the variables ids: n single-index terms of *)
(* coefficient 1 and one constant term of coefficient -1, in any order        *)
IsExactlyOneGroup(g, ids) ==
    /\ g.kind = "SlcTerm"
    /\ g.c = Float(P)
    /\ Len(g.terms) = n + 1
    /\ \A v \in ids :
          Cardinality({y \in DOMAIN g.terms : g.terms[y] = [kind |-> "Term", c |-> Float(1), ids |-> <<v>>]}) = 1
    /\ Cardinality({y \in DOMAIN g.terms : Len(g.terms[y].ids) = 1}) = n
    /\ Cardinality({y \in DOMAIN g.terms :
                       g.terms[y] = [kind |-> "Term", c |-> Float(-1), ids |-> <<>>]}) = 1
    /\ TermIds(g) = ids

(* C6: for the n = 3 example with P = 1000 the penalty encoder appends exactly *)
(* 6 grouped terms, 3 rows then 3 columns, each of weight P with exactly 3     *)
(* single-index terms of coefficient 1 and one constant term of coefficient -1; *)
(* row k indexes {id(k,j)}, column k indexes {id(j,k)}; every variable is in   *)
(* exactly one row group and exactly one column group.                         *)
C6_SixGroupedTerms ==
    (PenaltiesBuilt /\ n = 3 /\ P = 1000) =>
        /\ Len(Grouped) = 6
        /\ Len(terms) = 36 + 6
        /\ \A y \in 1..6 : IsSlc(terms[36 + y]) /\ Len(Grouped[y].terms) = 4
        /\ \A kk \in 0..2 :
              /\ IsExactlyOneGroup(Grouped[kk + 1], {kk * 3 + j : j \in 0..2})
              /\ IsExactlyOneGroup(Grouped[3 + kk + 1], {j * 3 + kk : j \in 0..2})
        /\ \A v \in 0..8 :
              /\ Cardinality({y \in 1..3 : v \in TermIds(Grouped[y])}) = 1
              /\ Cardinality({y \in 4..6 : v \in TermIds(Grouped[y])}) = 1

C6_Witness ==
    /\ PenaltiesBuilt /\ n = 3 /\ P = 1000 /\ pc = "problem"
    /\ Len(Grouped) = 6
    /\ TermIds(Grouped[5]) = {1, 4, 7}

(* C7: for a positive weight P each grouped term's value P * (sum - 1)^2 is 0 *)
(* exactly when exactly one variable of the group is set and is at least P    *)
(* otherwise; so the total penalty of the 2n groups is 0 exactly on the       *)
(* permutation-matrix assignments.                                            *)
C7_PenaltyZeroIffExactlyOne ==
    (nb = "qap" /\ HasResult /\ P > 0) =>
        /\ Len(problem.terms_slc) = 2 * n
        /\ \A y \in DOMAIN problem.terms_slc :
              LET g == problem.terms_slc[y]
                  ones == GroupOnes(g, ReturnedX)
                  value == SlcValue(g, ReturnedX)
              IN  /\ Cardinality(TermIds(g)) = n
                  /\ value = Float(P * (ones - 1) * (ones - 1))
                  /\ (value = 0) <=> (ones = 1)
                  /\ (ones # 1) => value >= Float(P)
        /\ (TotalPenalty(ReturnedX) = 0) <=> IsPermutationMatrix(ReturnedX)
        /\ ~IsPermutationMatrix(ReturnedX) => TotalPenalty(ReturnedX) >= Float(P)

C7_Witness ==
    /\ nb = "qap" /\ HasResult /\ P = 2 /\ n = 3
    /\ ReturnedX = [v \in 0..8 |-> IF v \in {0, 1, 5, 6} THEN 1 ELSE 0]
    /\ SlcValue(problem.terms_slc[1], ReturnedX) = Float(2)
    /\ SlcValue(problem.terms_slc[2], ReturnedX) = 0

(* C8: for the 3x3 example as built (36 monomial terms and 6 grouped terms,   *)
(* P = 1000) the optimum is the configuration with variables 0, 4, 8 set, of  *)
(* cost 270: no configuration costs less and no other configuration costs 270. *)
C8_OptimumIsIdentity270 ==
    (nb = "qap" /\ HasResult /\ n = 3 /\ P = 1000
        /\ locations = ExampleLocations /\ facilities = ExampleFacilities) =>
        LET optimal == [v \in 0..8 |-> IF v \in {0, 4, 8} THEN 1 ELSE 0]
        IN  /\ Len(problem.terms) = 36 /\ Len(problem.terms_slc) = 6
            /\ ReturnedCost >= Float(270)
            /\ (ReturnedCost = Float(270)) <=> (ReturnedX = optimal)

C8_Witness ==
    /\ nb = "qap" /\ HasResult /\ n = 3 /\ P = 1000
    /\ ReturnedX = [v \in 0..8 |-> IF v \in {0, 4, 8} THEN 1 ELSE 0]
    /\ ReturnedCost = Float(270)

---------------------------------------------------------------------------
MapBuilt == nb = "qap" /\ pc # "map"

(* variable_map[(i,j)] = i*n + j is a bijection between the pairs and the ids of idRange *)
MapIsBijectionOnto(idRange) ==
    /\ Len(variable_map) = n * n
    /\ {variable_map[y][1] : y \in DOMAIN variable_map} = Facilities \X Locations
    /\ \A y, z \in DOMAIN variable_map :
          y # z => /\ variable_map[y][1] # variable_map[z][1]
                   /\ variable_map[y][2] # variable_map[z][2]
    /\ \A i \in Facilities, j \in Locations : DictGet(variable_map, <<i, j>>) = i * n + j
    /\ {variable_map[y][2] : y \in DOMAIN variable_map} = idRange

(* C9 as stated, for the notebook's n: the ids are the dense range [0, n) *)
C9_Original_IdsBelowN == (MapBuilt /\ n = ExampleN) => MapIsBijectionOnto(0..(n - 1))

(* C9: variable_map (variable_map[(i,j)] = i*n + j for i, j in range(n)) is a  *)
(* bijection between the (facility, location) pairs and the dense range of    *)
(* ids [0, n*n): every pair has exactly one id, no two pairs share one, no id *)
(* of the range is unused; and the map is not modified after it is built.     *)
C9_MapIsBijectionAndFixed ==
    /\ [](MapBuilt => MapIsBijectionOnto(0..(n * n - 1)))
    /\ [][MapBuilt => variable_map' = variable_map]_vars

C9_Witness ==
    /\ MapBuilt /\ pc = "problem" /\ n = 3
    /\ Len(variable_map) = 9
    /\ DictGet(variable_map, <<2, 1>>) = 7

(* C10: in both notebooks, at every point of term construction and at         *)
(* submission, every variable index referenced by a term (monomial or inside  *)
(* a grouped term) is a valid variable id: within 0..5, the keys of the label *)
(* table of print_results, for Secret Santa; within the ids of variable_map,  *)
(* 0..n*n-1, for the quadratic assignment problem.                            *)
C10_IndicesAreValidIds ==
    LET referenced == TermsIds(terms) \cup (IF problem = None THEN {} ELSE ProblemIds(problem))
    IN  /\ (nb = "santa") =>
              /\ referenced \subseteq 0..5
              /\ \A v \in referenced : DictHas(SantaLabels, str(v))
        /\ (nb = "qap") =>
              /\ referenced \subseteq {variable_map[y][2] : y \in DOMAIN variable_map}
              /\ referenced \subseteq 0..(n * n - 1)

C10_Witness ==
    /\ nb = "qap" /\ pc = "submit" /\ problem # None
    /\ ProblemIds(problem) = 0..8
    /\ TermsIds(terms) = 0..8


---------------------------------------------------------------------------
(* The result interpreter: what the claims speak of.                       *)

(* the ids of the problem's variables: 0..5 for Secret Santa, 0..n*n-1 for the QAP *)
VariableIds == IF nb = "santa" THEN 0..5 ELSE 0..(n * n - 1)

(* the variables the returned configuration sets, in ascending order *)
SetVariables == SortedSeq({v \in VariableIds : X(Config, v) = 1})

(* the line that stands for a variable *)
LabelOf(v) ==
    IF nb = "santa"
    THEN DictGet(SantaLabels, str(v))
    ELSE "Facility " \o str(v \div n) \o " assigned to Location " \o str(v % n)

(* exactly one variable is set in every row: per giver, per facility *)
OneSetPerRow ==
    IF nb = "santa"
    THEN \A p \in People : GiftsGiven(p, Config) = 1
    ELSE \A i \in Facilities :
            Cardinality({j \in Locations : X(Config, i * n + j) = 1}) = 1

(* C11: given a configuration with exactly one variable set per logical row,  *)
(* the result interpreter (print_results; the variable_map loop) prints as    *)
(* many lines as there are rows / people, 3 in both examples, one per set     *)
(* variable, each the label of that variable.                                 *)
C11_OneLinePerRow ==
    (HasResult /\ pc \in {"done", "failed"} /\ OneSetPerRow) =>
        /\ pc = "done"
        /\ Len(out) = 3
        /\ Len(out) = Len(SetVariables)
        /\ \A y \in DOMAIN out : out[y] = LabelOf(SetVariables[y])
        /\ Cardinality(Range(out)) = 3

C11_Witness ==
    /\ nb = "santa" /\ HasResult /\ pc = "done"
    /\ SetVariables = <<1, 3, 5>>
    /\ out = << "Vincent buys Uma a gift and writes her a poem.",
                "Tess buys Uma a gift and writes her a poem.",
                "Uma buys Tess a gift and writes her a poem." >>

(* C13: the result interpreter does not validate feasibility: for any         *)
(* configuration, infeasible ones included, it completes without error or     *)
(* warning and prints one line for every variable whose value is 1 and        *)
(* nothing else: no line for all-zero, a line per variable for all-one, two   *)
(* lines for two variables set in one row.                                    *)
C13_NoFeasibilityCheck ==
    HasResult =>
        /\ pc \in {"interpret", "done"}
        /\ (pc = "done") =>
              /\ out = [y \in DOMAIN SetVariables |-> LabelOf(SetVariables[y])]
              /\ (\A v \in VariableIds : X(Config, v) = 0) => out = <<>>
              /\ (\A v \in VariableIds : X(Config, v) = 1)
                    => Len(out) = Cardinality(VariableIds)
              /\ Len(out) = Cardinality({v \in VariableIds : X(Config, v) = 1})

C13_Witness ==
    /\ nb = "santa" /\ HasResult /\ pc = "done"
    /\ SetVariables = <<0, 1>>
    /\ out = << "Vincent buys Tess a gift and writes her a poem.",
                "Vincent buys Uma a gift and writes her a poem." >>


---------------------------------------------------------------------------
(* C15: in the quadratic assignment example the penalty weight P = 1000 is    *)
(* the largest coefficient of the objective: the maximum over the 36 monomial *)
(* terms of locations[j][j2] * facilities[i][i2] / 2 is 1000, attained by     *)
(* flow 100 with distance 20, and no coefficient is above P or below 0.       *)
C15_PenaltyIsLargestCoefficient ==
    (MonomialsBuilt /\ n = 3 /\ locations = ExampleLocations
        /\ facilities = ExampleFacilities) =>
        LET mono == Monomials
        IN  /\ P = 1000
            /\ Len(mono) = 36
            /\ \A y \in DOMAIN mono : 0 <= mono[y].c /\ mono[y].c <= Float(P)
            /\ \E y \in DOMAIN mono : mono[y].c = Float(P)
            /\ \A y \in DOMAIN mono :
                  (mono[y].c = Float(P)) =>
                      /\ facilities[(mono[y].ids[1] \div n) + 1][(mono[y].ids[2] \div n) + 1] = 100
                      /\ locations[(mono[y].ids[1] % n) + 1][(mono[y].ids[2] % n) + 1] = 20

C15_Witness ==
    /\ PenaltiesBuilt /\ n = 3 /\ P = 1000 /\ pc = "submit"
    /\ problem.terms[9] = [kind |-> "Term", c |-> Float(1000), ids |-> <<2, 3>>]
    /\ problem.terms_slc[1].c = Float(1000)

---------------------------------------------------------------------------
(* the sentence print_results prints for "giver buys for receiver" *)
Pronoun(p) == IF p = "Vincent" THEN "him" ELSE "her"

Sentence(giver, receiver) ==
    giver \o " buys " \o receiver \o " a gift and writes " \o Pronoun(receiver) \o " a poem."

(* the gift exchanges: everybody gives to one other person, everybody receives once *)
Exchanges ==
    {rcv \in [People -> People] :
        /\ \A p \in People : rcv[p] # p
        /\ \A p, q \in People : p # q => rcv[p] # rcv[q]}

(* the assignments of x0..x5 of cost 0 under the Problem *)
ZeroCostSets ==
    {{v \in 0..5 : x[v] = 1} : x \in {x \in [0..5 -> {0, 1}] : Cost(problem, x) = 0}}

(* C16: end to end for Secret Santa, the objective has exactly two            *)
(* minimum-cost (cost 0) configurations, {x0,x3,x4} and {x1,x2,x5}, and for   *)
(* each print_results prints exactly 3 sentences in which each of Vincent,    *)
(* Tess and Uma is the giver exactly once and the receiver exactly once and   *)
(* nobody buys for themselves: the label table agrees with the constraints.   *)
C16_SantaEndToEnd ==
    (nb = "santa" /\ calls = SantaCalls /\ problem # None) =>
        /\ ZeroCostSets = {{0, 3, 4}, {1, 2, 5}}
        /\ \A x \in [0..5 -> {0, 1}] : Cost(problem, x) >= 0
        /\ (pc = "done" /\ ReturnedCost = 0) =>
              /\ Range(SetVariables) \in {{0, 3, 4}, {1, 2, 5}}
              /\ Len(out) = 3
              /\ \E rcv \in Exchanges :
                    /\ Range(out) = {Sentence(g, rcv[g]) : g \in People}
                    /\ \A g \in People :
                          Cardinality({y \in DOMAIN out : out[y] = Sentence(g, rcv[g])}) = 1

C16_Witness ==
    /\ nb = "santa" /\ calls = SantaCalls /\ pc = "done" /\ ReturnedCost = 0
    /\ Range(SetVariables) = {1, 2, 5}
    /\ out = << "Vincent buys Uma a gift and writes her a poem.",
                "Tess buys Vincent a gift and writes him a poem.",
                "Uma buys Tess a gift and writes her a poem." >>


---------------------------------------------------------------------------
(* the length of the complete term list of the running script *)
CompleteLength ==
    IF nb = "santa" THEN 6 * Len(calls) ELSE n * n * (n - 1) * (n - 1) + 2 * n

(* C14: the control flow of either script is strictly linear: the term list   *)
(* is completely built before the Problem is created, the Problem is          *)
(* submitted at most once (never resubmitted or retried), nothing else        *)
(* happens until the call returns or fails, the result is interpreted and     *)
(* printed only after a successful return, and if the call fails the run      *)
(* ends without interpreting or printing any solution.                        *)
C14_LinearControlFlow ==
    /\ [](problem # None =>
            /\ Len(terms) = CompleteLength
            /\ problem.terms \o problem.terms_slc = terms)
    /\ [][problem' # problem => (problem = None /\ Len(terms) = CompleteLength)]_vars
    /\ [][problem # None => terms' = terms]_vars
    /\ [][pc = "submit" => pc' \in {"interpret", "failed"}]_vars
    /\ [][pc' = "submit" => (pc \in {"assemble", "problem"} /\ problem = None)]_vars
    /\ [][result' # result => (pc = "submit" /\ result = None /\ pc' = "interpret")]_vars
    /\ [][out' # out => (pc = "interpret" /\ result # None)]_vars
    /\ [](result = None => out = <<>>)
    /\ [](pc = "failed" => (result = None /\ out = <<>>))
    /\ [][pc # "failed"]_vars

C14_Witness ==
    /\ pc = "failed" /\ nb = "qap"
    /\ problem # None /\ Len(problem.terms) = 36
    /\ result = None /\ out = <<>>
    /\ runs = 0


---------------------------------------------------------------------------
(* C12: the result interpreter has no hidden state: run twice, or any number  *)
(* of times, on the same configuration it prints the identical sequence of    *)
(* lines, and it modifies neither the configuration nor the variable map /    *)
(* label table.                                                               *)
C12_InterpreterHasNoHiddenState ==
    /\ [](runs >= 1 =>
            LET len == Len(out) \div runs
            IN  /\ Len(out) = len * runs
                /\ \A r \in 1..(runs - 1) :
                      SubSeq(out, r * len + 1, (r + 1) * len) = SubSeq(out, 1, len))
    /\ [][runs' # runs =>
            /\ result' = result
            /\ variable_map' = variable_map
            /\ runs' = runs + 1]_vars
    /\ [][result # None => result' = result]_vars

C12_Witness ==
    /\ nb = "qap" /\ runs = 2 /\ pc = "done"
    /\ out = << "Facility 0 assigned to Location 0",
                "Facility 1 assigned to Location 1",
                "Facility 2 assigned to Location 2",
                "Facility 0 assigned to Location 0",
                "Facility 1 assigned to Location 1",
                "Facility 2 assigned to Location 2" >>

====
